---- MODULE Spec2Model ----
(***************************************************************************)
(* Model of src/src/server.py, the Amadeus MCP tool server.                *)
(*                                                                         *)
(* The file holds both sides of an unresolved merge: the side marked HEAD  *)
(* (mock fallback, three tools) and the side marked e6acde6 (fail-fast     *)
(* startup, one validated flight tool).  A build has one side or the       *)
(* other; `build` records which.                                           *)
(*                                                                         *)
(* Python values that may be None are modelled as sequences of length at   *)
(* most one: None is <<>>, a value v is <<v>>.  A keyword argument the     *)
(* caller leaves out is <<>> as well and takes the parameter's default.    *)
(* Money is kept in hundredths so that float() of a decimal string and     *)
(* randint()/100 stay integers.                                            *)
(***************************************************************************)
EXTENDS Integers, Sequences, FiniteSets, TLC

VARIABLES build, api_key, api_secret, lifespan, amadeus_client,
          pc, tool, args, calls, result

vars == <<build, api_key, api_secret, lifespan, amadeus_client,
          pc, tool, args, calls, result>>

(***************************************************************************)
(* Bounds of the model.                                                    *)
(***************************************************************************)
MaxAdults == 11
MaxChildren == 9
MaxInfants == 10

(***************************************************************************)
(* Python values.                                                          *)
(***************************************************************************)
None == <<>>

Some(v) == <<v>>

\* bool(x) for an optional int: None and 0 are falsy
TruthyInt(o) == o # None /\ o[1] # 0

\* bool(x) for an optional str: None and "" are falsy
TruthyStr(o) == o # None /\ o[1] # ""

\* a keyword parameter's value: the caller's, or the default when left out
Bind(o, default) == IF o = <<>> THEN default ELSE o

\* a decimal string such as "512.30", or a string float() cannot parse
NumStr(c) == [numeric |-> TRUE, cents |-> c]

BadStr == [numeric |-> FALSE, cents |-> 0]

(***************************************************************************)
(* Program constants.                                                      *)
(***************************************************************************)
DefaultMax == 250
DefaultMaxHEAD == 5
DefaultMaxHotel == 3
FlightMockLo == 400
FlightMockHi == 800
HotelMockLo == 300
HotelMockHi == 900
CarLo == 15000
CarHi == 45000

\* random.randint(lo, hi): the draw is sampled at both ends and the middle
RandInt(lo, hi) == {lo, (lo + hi) \div 2, hi}

(***************************************************************************)
(* Tool responses: the JSON object handed to json.dumps, as a function     *)
(* from its keys.                                                          *)
(***************************************************************************)
ErrorResponse(msg) == [error |-> msg]

ItemResponse(item, cost, currency) ==
    [item |-> item, cost |-> cost, currency |-> currency]

(***************************************************************************)
(* Startup.                                                                *)
(***************************************************************************)
EnvValues == {None, Some(""), Some("secret")}

Init ==
    /\ build \in {"HEAD", "e6acde6"}
    /\ api_key \in EnvValues
    /\ api_secret \in EnvValues
    /\ lifespan = "not_started"
    /\ amadeus_client = None
    /\ pc = "idle"
    /\ tool = "none"
    /\ args = <<>>
    /\ calls = <<>>
    /\ result = <<>>

\* `not api_key or not api_secret`
CredentialsMissing == ~TruthyStr(api_key) \/ ~TruthyStr(api_secret)

app_lifespan_HEAD ==
    /\ build = "HEAD"
    /\ lifespan = "not_started"
    /\ lifespan' = "yielded"
    /\ amadeus_client' = IF CredentialsMissing THEN None ELSE Some("Client")
    /\ UNCHANGED <<build, api_key, api_secret, pc, tool, args, calls, result>>

app_lifespan ==
    /\ build = "e6acde6"
    /\ lifespan = "not_started"
    /\ IF CredentialsMissing
         THEN lifespan' = "raised" /\ amadeus_client' = None
         ELSE lifespan' = "yielded" /\ amadeus_client' = Some("Client")
    /\ UNCHANGED <<build, api_key, api_secret, pc, tool, args, calls, result>>

(***************************************************************************)
(* search_flight_offers, the e6acde6 side: validation, parameter map, one  *)
(* upstream call.                                                          *)
(***************************************************************************)
FlightEndpoint == "shopping.flight_offers_search"

\* the checks with the seated-travelers total tested first, children
\* defaulting to 0
ValidateTravelersTotalFirst(adults, children, infants) ==
    IF adults + (IF children = None THEN 0 ELSE children[1]) > 9
      THEN Some("Total number of seated travelers (adults + children) cannot exceed 9")
    ELSE IF adults # 0 /\ ~(1 <= adults /\ adults <= 9)
      THEN Some("Adults must be between 1 and 9")
    ELSE IF TruthyInt(infants) /\ adults # 0 /\ infants[1] > adults
      THEN Some("Number of infants cannot exceed number of adults")
    ELSE None

\* lines 249-256: the three checks in order; None when all pass
ValidateTravelers(adults, children, infants) ==
    IF adults # 0 /\ ~(1 <= adults /\ adults <= 9)
      THEN Some("Adults must be between 1 and 9")
    ELSE IF TruthyInt(children) /\ TruthyInt(infants) /\ adults # 0
            /\ adults + children[1] > 9
      THEN Some("Total number of seated travelers (adults + children) cannot exceed 9")
    ELSE IF TruthyInt(infants) /\ adults # 0 /\ infants[1] > adults
      THEN Some("Number of infants cannot exceed number of adults")
    ELSE None

\* `if x: params[k] = x` for a string parameter
IfTruthyStr(k, o) == IF TruthyStr(o) THEN k :> o[1] ELSE <<>>

\* `if x is not None: params[k] = x`
IfNotNone(k, o) == IF o # None THEN k :> o[1] ELSE <<>>

\* `if x: params[k] = x` for an int parameter
IfTruthyInt(k, o) == IF TruthyInt(o) THEN k :> o[1] ELSE <<>>

\* `if x: params[k] = x` for a bool parameter
IfTruthyBool(k, o) == IF o # None /\ o[1] THEN k :> o[1] ELSE <<>>

\* the parameter map with every optional tested by truthiness
BuildParamsTruthy(a) ==
    [originLocationCode |-> a.originLocationCode,
     destinationLocationCode |-> a.destinationLocationCode,
     departureDate |-> a.departureDate,
     adults |-> a.adults]
      @@ IfTruthyStr("returnDate", a.returnDate)
      @@ IfTruthyInt("children", a.children)
      @@ IfTruthyInt("infants", a.infants)
      @@ IfTruthyStr("travelClass", a.travelClass)
      @@ IfTruthyStr("includedAirlineCodes", a.includedAirlineCodes)
      @@ IfTruthyStr("excludedAirlineCodes", a.excludedAirlineCodes)
      @@ IfTruthyBool("nonStop", a.nonStop)
      @@ IfTruthyStr("currencyCode", a.currencyCode)
      @@ IfTruthyInt("maxPrice", a.maxPrice)
      @@ IfNotNone("max", Bind(a.max, Some(DefaultMax)))

\* lines 259-284: the keyword arguments of flight_offers_search.get
BuildParams(a) ==
    [originLocationCode |-> a.originLocationCode,
     destinationLocationCode |-> a.destinationLocationCode,
     departureDate |-> a.departureDate,
     adults |-> a.adults]
      @@ IfTruthyStr("returnDate", a.returnDate)
      @@ IfNotNone("children", a.children)
      @@ IfNotNone("infants", a.infants)
      @@ IfTruthyStr("travelClass", a.travelClass)
      @@ IfTruthyStr("includedAirlineCodes", a.includedAirlineCodes)
      @@ IfTruthyStr("excludedAirlineCodes", a.excludedAirlineCodes)
      @@ IfNotNone("nonStop", a.nonStop)
      @@ IfTruthyStr("currencyCode", a.currencyCode)
      @@ IfNotNone("maxPrice", a.maxPrice)
      @@ IfNotNone("max", Bind(a.max, Some(DefaultMax)))

\* an upstream request on the wire, its answer still to come
Call(endpoint, params) ==
    [endpoint |-> endpoint, params |-> params, outcome |-> [kind |-> "pending"]]

\* what flight_offers_search.get can do: answer with a body, raise the SDK's
\* ResponseError, or raise anything else (transport failure, a body that
\* json.dumps rejects)
FlightBodies == {[data |-> <<>>], [data |-> <<"offer-1">>]}

FlightOutcomes ==
    [kind : {"ok"}, body : FlightBodies]
      \cup [kind : {"ResponseError"}, text : {"[400]"}]
      \cup [kind : {"Exception"}, text : {"connection reset"}]

\* lines 290-299: the response for each outcome of the call
FlightResponse(o) ==
    IF o.kind = "ok" THEN o.body
    ELSE IF o.kind = "ResponseError"
      THEN ErrorResponse("Amadeus API error: " \o o.text)
    ELSE ErrorResponse("Unexpected error: " \o o.text)

Strs == {None, Some(""), Some("X")}

\* every traveler-count tuple within the bounds, no other option supplied
CountArgs ==
    [originLocationCode : {"SYD"}, destinationLocationCode : {"BKK"},
     departureDate : {"2025-05-02"},
     adults : (-1)..MaxAdults,
     children : {None} \cup {Some(n) : n \in 0..MaxChildren},
     infants : {None} \cup {Some(n) : n \in 0..MaxInfants},
     returnDate : {None}, travelClass : {None},
     includedAirlineCodes : {None}, excludedAirlineCodes : {None},
     nonStop : {None}, currencyCode : {None}, maxPrice : {None},
     max : {None}]

\* every combination of left-out, empty/zero/false and ordinary options
ParamArgs ==
    [originLocationCode : {"SYD"}, destinationLocationCode : {"BKK"},
     departureDate : {"2025-05-02"},
     adults : {1},
     children : {None, Some(0)},
     infants : {None, Some(0)},
     returnDate : Strs, travelClass : Strs,
     includedAirlineCodes : Strs, excludedAirlineCodes : Strs,
     nonStop : {None, Some(FALSE), Some(TRUE)},
     currencyCode : Strs,
     maxPrice : {None, Some(0), Some(100)},
     max : {None, Some(0), Some(5)}]

FlightArgs == CountArgs \cup ParamArgs

\* the server takes a request when it is up and the last one is answered
CanInvoke == lifespan = "yielded" /\ pc = "idle"

\* the invocation is over and its request-scoped values are dropped
next_request ==
    /\ pc \in {"returned", "raised"}
    /\ pc' = "idle"
    /\ tool' = "none"
    /\ args' = <<>>
    /\ calls' = <<>>
    /\ result' = <<>>
    /\ UNCHANGED <<build, api_key, api_secret, lifespan, amadeus_client>>

\* lines 249-290: up to the upstream call
search_flight_offers ==
    /\ build = "e6acde6"
    /\ CanInvoke
    /\ \E a \in FlightArgs :
         LET v == ValidateTravelers(a.adults, a.children, a.infants) IN
           /\ tool' = "search_flight_offers"
           /\ args' = a
           /\ IF v # None
                THEN /\ pc' = "returned"
                     /\ calls' = <<>>
                     /\ result' = <<ErrorResponse(v[1])>>
                ELSE /\ pc' = "awaiting"
                     /\ calls' = <<Call(FlightEndpoint, BuildParams(a))>>
                     /\ result' = <<>>
    /\ UNCHANGED <<build, api_key, api_secret, lifespan, amadeus_client>>

\* lines 290-299: the call answers or raises, and the tool returns
search_flight_offers_return ==
    /\ tool = "search_flight_offers"
    /\ pc = "awaiting"
    /\ \E o \in FlightOutcomes :
         /\ calls' = [calls EXCEPT ![Len(calls)].outcome = o]
         /\ pc' = "returned"
         /\ result' = <<FlightResponse(o)>>
    /\ UNCHANGED <<build, api_key, api_secret, lifespan, amadeus_client, tool, args>>

(***************************************************************************)
(* The HEAD side: get_amadeus_client and the three tools.  A tool's result *)
(* is Some(response), or None when an exception leaves the tool.           *)
(***************************************************************************)
get_amadeus_client == amadeus_client

HotelEndpoint == "shopping.hotel_offers_search"

StatusCodes == {400, 500}

\* a ResponseError (with its status code and its str()), or any other exception
UpstreamRaises ==
    [kind : {"ResponseError"}, status_code : StatusCodes, text : {"[400]"}]
      \cup [kind : {"Exception"}, text : {"connection reset"}]

\* response.data[0] of a flight search: a dict, as a function from its keys
FlightOffers ==
    {<<>>,
     [price |-> [grandTotal |-> NumStr(51230), currency |-> "EUR"]],
     [price |-> [grandTotal |-> BadStr, currency |-> "EUR"]],
     [price |-> [currency |-> "EUR"]],
     [price |-> [grandTotal |-> NumStr(51230)]],
     [id |-> "1"]}

FlightOutcomesHEAD ==
    [kind : {"ok"}, data : {<<>>} \cup {<<f>> : f \in FlightOffers}]
      \cup UpstreamRaises

\* lines 118-123: the item built from the first offer; None when a key is
\* missing (KeyError) or float() rejects the total (ValueError)
FirstFlightItem(a, offer) ==
    IF /\ "price" \in DOMAIN offer
       /\ "grandTotal" \in DOMAIN offer.price
       /\ offer.price.grandTotal.numeric
       /\ "currency" \in DOMAIN offer.price
      THEN Some(ItemResponse(
             "Flight: " \o a.originLocationCode \o " to " \o a.destinationLocationCode,
             offer.price.grandTotal.cents, offer.price.currency))
      ELSE None

\* lines 115-126
FlightResponseHEAD(a, o) ==
    IF o.kind = "ResponseError"
      THEN Some(ErrorResponse("Amadeus Flight API error: " \o o.text))
    ELSE IF o.kind = "Exception" THEN None
    ELSE IF o.data # <<>> /\ DOMAIN o.data[1] # {}
      THEN FirstFlightItem(a, o.data[1])
    ELSE Some(ErrorResponse("No flight offers found."))

\* lines 105-112
BuildParamsHEAD(a) ==
    [originLocationCode |-> a.originLocationCode,
     destinationLocationCode |-> a.destinationLocationCode,
     departureDate |-> a.departureDate,
     adults |-> a.adults,
     max |-> Bind(a.max, Some(DefaultMaxHEAD))[1]]
      @@ IfTruthyStr("returnDate", a.returnDate)

FlightArgsHEAD ==
    [originLocationCode : {"SYD"}, destinationLocationCode : {"BKK"},
     departureDate : {"2025-05-02"},
     adults : (-1)..MaxAdults,
     returnDate : Strs,
     max : {None, Some(0), Some(5)}]

\* the finished invocation: a returned response, or an escaped exception
Finish(r) ==
    IF r = None
      THEN pc' = "raised" /\ result' = <<>>
      ELSE pc' = "returned" /\ result' = <<r[1]>>

\* lines 95-116: the mock when there is no client, else up to the upstream call
search_flight_offers_HEAD ==
    /\ build = "HEAD"
    /\ CanInvoke
    /\ \E a \in FlightArgsHEAD :
         /\ tool' = "search_flight_offers_HEAD"
         /\ args' = a
         /\ IF get_amadeus_client = None
              THEN /\ \E cost \in RandInt(FlightMockLo, FlightMockHi) :
                        Finish(Some(ItemResponse(
                          "Flight: " \o a.originLocationCode \o " to "
                             \o a.destinationLocationCode \o " (MOCK)",
                          100 * cost, "USD")))
                   /\ calls' = <<>>
              ELSE /\ pc' = "awaiting"
                   /\ calls' = <<Call(FlightEndpoint, BuildParamsHEAD(a))>>
                   /\ result' = <<>>
    /\ UNCHANGED <<build, api_key, api_secret, lifespan, amadeus_client>>

\* lines 116-126: the call answers or raises, and the tool returns or fails
search_flight_offers_HEAD_return ==
    /\ tool = "search_flight_offers_HEAD"
    /\ pc = "awaiting"
    /\ \E o \in FlightOutcomesHEAD :
         /\ calls' = [calls EXCEPT ![Len(calls)].outcome = o]
         /\ Finish(FlightResponseHEAD(args, o))
    /\ UNCHANGED <<build, api_key, api_secret, lifespan, amadeus_client, tool, args>>

\* one entry of response.data['data'] of a hotel search
GoodOffer == [price |-> [total |-> NumStr(18900), currency |-> "USD"]]

Hotels ==
    {[hotel |-> [name |-> "Hotel A"], offers |-> <<GoodOffer>>],
     [hotel |-> [name |-> "Hotel A"], offers |-> <<>>],
     [hotel |-> [name |-> "Hotel A"]],
     [hotel |-> [name |-> "Hotel A"],
      offers |-> <<[price |-> [total |-> BadStr, currency |-> "USD"]]>>],
     [hotel |-> [name |-> "Hotel A"], offers |-> <<[price |-> [total |-> NumStr(18900)]]>>],
     [hotel |-> [hotelId |-> "H1"], offers |-> <<GoodOffer>>]}

\* response.data: a list (what the SDK parses from the body's "data") or a dict
HotelData ==
    {[type |-> "list", value |-> <<>>],
     [type |-> "dict", value |-> <<>>],
     [type |-> "dict", value |-> [meta |-> "m"]],
     [type |-> "dict", value |-> [data |-> <<>>]]}
      \cup {[type |-> "dict", value |-> [data |-> <<h>>]] : h \in Hotels}
      \cup {[type |-> "list", value |-> <<h>>] : h \in Hotels}

HotelOutcomes == [kind : {"ok"}, data : HotelData] \cup UpstreamRaises

\* bool(response.data): an empty list or dict is falsy
TruthyData(d) == IF d.type = "list" THEN d.value # <<>> ELSE DOMAIN d.value # {}

\* lines 163-170: the item built from the first hotel and its first offer;
\* None on KeyError, IndexError or ValueError
FirstHotelItem(a, h) ==
    IF /\ "offers" \in DOMAIN h
       /\ h.offers # <<>>
       /\ "hotel" \in DOMAIN h
       /\ "name" \in DOMAIN h.hotel
       /\ "price" \in DOMAIN h.offers[1]
       /\ "total" \in DOMAIN h.offers[1].price
       /\ h.offers[1].price.total.numeric
       /\ "currency" \in DOMAIN h.offers[1].price
      THEN Some(ItemResponse(
             "Hotel: " \o h.hotel.name \o " (" \o a.checkInDate \o " to "
                \o a.checkOutDate \o ")",
             h.offers[1].price.total.cents, h.offers[1].price.currency))
      ELSE None

\* the handler with one message for every empty result, the city left out
HotelResponseGenericEmpty(a, o) ==
    IF o.kind = "ResponseError"
      THEN Some(ErrorResponse("Amadeus Hotel API Error: Status " \o ToString(o.status_code)))
    ELSE IF o.kind = "Exception" THEN None
    ELSE IF ~TruthyData(o.data)
      THEN Some(ErrorResponse("No hotel offers found."))
    ELSE IF o.data.type = "list" THEN None
    ELSE IF "data" \in DOMAIN o.data.value /\ o.data.value.data # <<>>
      THEN FirstHotelItem(a, o.data.value.data[1])
    ELSE Some(ErrorResponse("No hotel offers found."))

\* lines 151-174
HotelResponse(a, o) ==
    IF o.kind = "ResponseError"
      THEN Some(ErrorResponse("Amadeus Hotel API Error: Status " \o ToString(o.status_code)))
    ELSE IF o.kind = "Exception" THEN None
    ELSE IF ~TruthyData(o.data)
      THEN Some(ErrorResponse("No hotel offers found in " \o a.cityCode \o "."))
    ELSE IF o.data.type = "list" THEN None   \* a list has no .get: AttributeError
    ELSE IF "data" \in DOMAIN o.data.value /\ o.data.value.data # <<>>
      THEN FirstHotelItem(a, o.data.value.data[1])
    ELSE Some(ErrorResponse("No hotel offers found in " \o a.cityCode \o "."))

\* lines 153-160
HotelParams(a) ==
    [cityCode |-> a.cityCode, adults |-> a.adults,
     checkInDate |-> a.checkInDate, checkOutDate |-> a.checkOutDate,
     currency |-> "USD", max |-> Bind(a.max, Some(DefaultMaxHotel))[1]]

HotelArgs ==
    [cityCode : {"XXZZ", "PAR"},
     checkInDate : {"2025-05-02"}, checkOutDate : {"2025-05-05"},
     adults : 1..2,
     max : {None, Some(1), Some(10)}]

\* lines 142-160
search_hotel_offers ==
    /\ build = "HEAD"
    /\ CanInvoke
    /\ \E a \in HotelArgs :
         /\ tool' = "search_hotel_offers"
         /\ args' = a
         /\ IF get_amadeus_client = None
              THEN /\ \E cost \in RandInt(HotelMockLo, HotelMockHi) :
                        Finish(Some(ItemResponse(
                          "Hotel: " \o a.cityCode \o " Stay (MOCK)", 100 * cost, "USD")))
                   /\ calls' = <<>>
              ELSE /\ pc' = "awaiting"
                   /\ calls' = <<Call(HotelEndpoint, HotelParams(a))>>
                   /\ result' = <<>>
    /\ UNCHANGED <<build, api_key, api_secret, lifespan, amadeus_client>>

\* lines 153-174
search_hotel_offers_return ==
    /\ tool = "search_hotel_offers"
    /\ pc = "awaiting"
    /\ \E o \in HotelOutcomes :
         /\ calls' = [calls EXCEPT ![Len(calls)].outcome = o]
         /\ Finish(HotelResponse(args, o))
    /\ UNCHANGED <<build, api_key, api_secret, lifespan, amadeus_client, tool, args>>

CarArgs == [startLocation : {"", "SYD Airport"}, endLocation : {"", "Bondi"}]

\* lines 191-202
search_car_hire_transfer_offers ==
    /\ build = "HEAD"
    /\ CanInvoke
    /\ \E a \in CarArgs :
         /\ tool' = "search_car_hire_transfer_offers"
         /\ args' = a
         /\ calls' = <<>>
         /\ IF ~(a.startLocation # "" /\ a.endLocation # "")
              THEN Finish(Some(ErrorResponse("Missing start or end location for car hire.")))
              ELSE \E cents \in RandInt(CarLo, CarHi) :
                     Finish(Some(
                       [item |-> "Car Hire/Transfer: " \o a.startLocation \o " to "
                                   \o a.endLocation,
                        cost |-> cents,
                        currency |-> "USD",
                        notes |-> "Cost is an MVP estimate for a standard sedan transfer/hire."]))
    /\ UNCHANGED <<build, api_key, api_secret, lifespan, amadeus_client>>

Next ==
    \/ app_lifespan_HEAD
    \/ app_lifespan
    \/ search_flight_offers
    \/ search_flight_offers_return
    \/ search_flight_offers_HEAD
    \/ search_flight_offers_HEAD_return
    \/ search_hotel_offers
    \/ search_hotel_offers_return
    \/ search_car_hire_transfer_offers
    \/ next_request

Spec == Init /\ [][Next]_vars

(***************************************************************************)
(* Vocabulary of the properties.                                           *)
(***************************************************************************)
Flight == "search_flight_offers"

Hotel == "search_hotel_offers"

Started == pc \in {"awaiting", "returned", "raised"}

Finished == pc \in {"returned", "raised"}

IsError(r) == DOMAIN r = {"error"}

\* the stated rules on traveler counts: adults in 1..9, adults plus
\* children (0 when absent) at most 9, infants (when given) at most adults
BreaksARule(adults, children, infants) ==
    \/ adults < 1
    \/ adults > 9
    \/ adults + (IF children = None THEN 0 ELSE children[1]) > 9
    \/ infants # None /\ infants[1] > adults

\* the invocation ended with an error before any upstream call
Rejected == pc = "returned" /\ calls = <<>> /\ Len(result) = 1 /\ IsError(result[1])

FailureKinds == {"ResponseError", "Exception"}

\* the (single) upstream call answered without raising, and with no entries
AnsweredEmpty ==
    /\ Len(calls) = 1
    /\ calls[1].outcome.kind = "ok"
    /\ \/ ~TruthyData(calls[1].outcome.data)
       \/ /\ calls[1].outcome.data.type = "dict"
          /\ \/ "data" \notin DOMAIN calls[1].outcome.data.value
             \/ calls[1].outcome.data.value.data = <<>>

(***************************************************************************)
(* C1: search_flight_offers answers with a validation error exactly when   *)
(* the traveler counts break a rule (adults < 1, adults > 9, adults +      *)
(* children > 9, infants > adults); every other tuple goes upstream.       *)
(***************************************************************************)
C1_RejectsExactlyInvalid ==
    tool = Flight /\ Started =>
      (Rejected <=> BreaksARule(args.adults, args.children, args.infants))

(***************************************************************************)
(* C2: an invocation of search_flight_offers whose traveler counts break   *)
(* a rule never calls flight_offers_search.get and ends with an error.     *)
(***************************************************************************)
C2_InvalidNeverGoesUpstream ==
    tool = Flight /\ Started /\ BreaksARule(args.adults, args.children, args.infants) =>
      /\ calls = <<>>
      /\ pc = "returned" => Len(result) = 1 /\ IsError(result[1])

(***************************************************************************)
(* C3: every invocation of every tool ends by returning exactly one        *)
(* well-formed response; no exception leaves the invocation.               *)
(***************************************************************************)
C3_AlwaysAResponse ==
    /\ pc # "raised"
    /\ pc = "returned" =>
         /\ Len(result) = 1
         /\ "error" \in DOMAIN result[1] => IsError(result[1])

(***************************************************************************)
(* C4 as stated: the payload of search_flight_offers has exactly the       *)
(* required keys plus the optional keys the caller supplied.               *)
(***************************************************************************)
RequiredKeys ==
    {"originLocationCode", "destinationLocationCode", "departureDate", "adults"}

StringKeys ==
    {"returnDate", "travelClass", "includedAirlineCodes", "excludedAirlineCodes",
     "currencyCode"}

ScalarKeys == {"children", "infants", "nonStop", "maxPrice"}

Supplied(a) == {k \in StringKeys \cup ScalarKeys \cup {"max"} : a[k] # None}

C4_ExactlySuppliedKeys ==
    tool = Flight /\ calls # <<>> =>
      DOMAIN calls[1].params = RequiredKeys \cup Supplied(args)

(***************************************************************************)
(* C4 amended: the payload has exactly the required keys, max (the         *)
(* caller's value, else 250), every optional string the caller supplied    *)
(* non-empty, and each of children, infants, nonStop and maxPrice the      *)
(* caller supplied; each carries the caller's value, 0 and false included. *)
(***************************************************************************)
C4_PayloadKeys ==
    tool = Flight /\ calls # <<>> =>
      LET p == calls[1].params IN
        /\ DOMAIN p = RequiredKeys \cup {"max"}
             \cup {k \in StringKeys : args[k] # None /\ args[k] # Some("")}
             \cup {k \in ScalarKeys : args[k] # None}
        /\ \A k \in RequiredKeys : p[k] = args[k]
        /\ \A k \in (DOMAIN p) \ (RequiredKeys \cup {"max"}) : p[k] = args[k][1]
        /\ p["max"] = IF args["max"] = None THEN 250 ELSE args["max"][1]

C4_Witness ==
    /\ tool = Flight
    /\ pc = "awaiting"
    /\ args.children = Some(0)
    /\ args.nonStop = Some(FALSE)
    /\ args.maxPrice = Some(0)
    /\ args.returnDate = Some("")
    /\ args.travelClass = Some("X")
    /\ args.max = None
    /\ "children" \in DOMAIN calls[1].params

(***************************************************************************)
(* C5 as stated: SYD to BKK on 2025-05-02 with adults=11 and nothing else  *)
(* supplied answers "Total number of seated travelers (adults + children)  *)
(* cannot exceed 9" with no upstream call.                                 *)
(***************************************************************************)
ElevenAdults ==
    [originLocationCode |-> "SYD", destinationLocationCode |-> "BKK",
     departureDate |-> "2025-05-02", adults |-> 11,
     children |-> None, infants |-> None,
     returnDate |-> None, travelClass |-> None,
     includedAirlineCodes |-> None, excludedAirlineCodes |-> None,
     nonStop |-> None, currencyCode |-> None, maxPrice |-> None, max |-> None]

C5_ElevenAdultsTotalError ==
    tool = Flight /\ Started /\ args = ElevenAdults =>
      /\ pc = "returned"
      /\ calls = <<>>
      /\ result = <<[error |->
            "Total number of seated travelers (adults + children) cannot exceed 9"]>>

(***************************************************************************)
(* C5 amended: the same search answers "Adults must be between 1 and 9"    *)
(* with no upstream call.                                                  *)
(***************************************************************************)
C5_ElevenAdultsRangeError ==
    tool = Flight /\ Started /\ args = ElevenAdults =>
      /\ pc = "returned"
      /\ calls = <<>>
      /\ result = <<[error |-> "Adults must be between 1 and 9"]>>

C5_Witness == tool = Flight /\ pc = "returned" /\ args = ElevenAdults

(***************************************************************************)
(* C6: with the API key or secret missing no tool invocation runs and no   *)
(* tool returns a result.                                                  *)
(***************************************************************************)
C6_NoToolWithoutCredentials ==
    CredentialsMissing => pc = "idle" /\ tool = "none" /\ result = <<>>

C8_EmptyIsNotAnError ==
    tool = Hotel /\ Finished /\ AnsweredEmpty =>
      Len(result) = 1 /\ "error" \notin DOMAIN result[1]

(***************************************************************************)
(* C9: a hotel search issues its priced-offers call only after a completed *)
(* city-to-hotels lookup call, and then with the hotel identifiers.        *)
(***************************************************************************)
HotelListEndpoint == "reference_data.locations.hotels.by_city"

C9_LookupBeforeOffers ==
    tool = Hotel =>
      \A i \in 1..Len(calls) :
        calls[i].endpoint = HotelEndpoint =>
          /\ \E j \in 1..(i - 1) :
               /\ calls[j].endpoint = HotelListEndpoint
               /\ calls[j].outcome.kind = "ok"
          /\ "hotelIds" \in DOMAIN calls[i].params

(***************************************************************************)
(* C10: within one invocation no endpoint is called twice, no call follows *)
(* a failed call, and an invocation whose upstream call failed returns     *)
(* exactly one error response.                                             *)
(***************************************************************************)
C10_FailedCallReportedOnce ==
    /\ \A i, j \in 1..Len(calls) : i < j =>
         /\ calls[i].endpoint # calls[j].endpoint
         /\ calls[i].outcome.kind \notin FailureKinds
    /\ (Finished /\ \E i \in 1..Len(calls) : calls[i].outcome.kind \in FailureKinds) =>
         Len(result) = 1 /\ IsError(result[1])
====
